---- MODULE Spec2Model ----
(***************************************************************************)
(* Quantile / median aggregation of a ChunkedArray                         *)
(* (crates/polars-core/src/chunked_array/ops/aggregate/quantile.rs).       *)
(*                                                                         *)
(* The integer implementation (ChunkQuantile<f64> for ChunkedArray<T>,     *)
(* T: PolarsIntegerType) is modelled; the Float64Chunked one has the same  *)
(* structure.  An f64 is a fixed-point integer counted in units of 1/Scale: *)
(* every quantile of the grid k/QDen, every index and every interpolated   *)
(* value the functions compute is an exact multiple of 1/Scale, so the     *)
(* arithmetic below is the arithmetic of the floats.                       *)
(***************************************************************************)
EXTENDS Integers, Sequences, FiniteSets

VARIABLES ca, single_chunk, sorted_flag, exclusive, ret

vars == <<ca, single_chunk, sorted_flag, exclusive, ret>>

\* ---- bounds ----
MaxLen == 4
MaxVal == 4
QDen == 4

\* ---- Option<T> ----
None == [some |-> FALSE, v |-> 0]
Some(x) == [some |-> TRUE, v |-> x]

\* ---- f64 as fixed point ----
Scale == 2 * QDen
F(i) == i * Scale
FMul(a, b) == (a * b) \div Scale
FDiv(a, b) == (a * Scale) \div b
floor_f64(x) == (x \div Scale) * Scale
ceil_f64(x) == (0 - ((0 - x) \div Scale)) * Scale
round_f64(x) == IF x >= 0 THEN ((2 * x + Scale) \div (2 * Scale)) * Scale
                ELSE (0 - ((Scale - 2 * x) \div (2 * Scale))) * Scale
max_f64(a, b) == IF a >= b THEN a ELSE b
AsUsize(x) == IF x < 0 THEN 0 ELSE x \div Scale
to_f64(x) == Some(F(x))
Half == Scale \div 2
QuantileInRange(quantile) == F(0) <= quantile /\ quantile <= F(1)

Methods == {"Nearest", "Lower", "Higher", "Midpoint", "Linear", "Equiprobable"}
Quantiles == {2 * k : k \in (0 - 1)..(QDen + 1)}

\* ---- the container (collaborator of this file) ----
len(a) == Len(a)
null_count(a) == Cardinality({i \in 1..Len(a) : ~a[i].some})
get(a, i) == IF i >= 0 /\ i < Len(a) THEN a[i + 1] ELSE None
IsNull(s) == ~s.some
IsValid(s) == s.some
Insert(x, t) ==
    LET k == Cardinality({i \in 1..Len(t) : t[i].v <= x.v})
    IN  SubSeq(t, 1, k) \o <<x>> \o SubSeq(t, k + 1, Len(t))
RECURSIVE SortVals(_)
SortVals(s) == IF s = <<>> THEN <<>> ELSE Insert(Head(s), SortVals(Tail(s)))
sort(a) == SelectSeq(a, IsNull) \o SortVals(SelectSeq(a, IsValid))
cont_slice(a, single) ==
    IF single /\ null_count(a) = 0 THEN Some([i \in 1..Len(a) |-> a[i].v]) ELSE None
cont_slice_mut(a, single, excl) ==
    IF excl THEN cont_slice(a, single) ELSE None

\* ---- slice primitives of the standard library ----
RemoveAt(s, i) == SubSeq(s, 1, i - 1) \o SubSeq(s, i + 1, Len(s))
RECURSIVE PermsOf(_)
PermsOf(s) ==
    IF s = <<>> THEN {<<>>}
    ELSE UNION {{<<s[i]>> \o t : t \in PermsOf(RemoveAt(s, i))} : i \in 1..Len(s)}
RECURSIVE SortInts(_)
SortInts(s) ==
    IF s = <<>> THEN <<>>
    ELSE LET t == SortInts(Tail(s))
             k == Cardinality({i \in 1..Len(t) : t[i] <= Head(s)})
         IN  SubSeq(t, 1, k) \o <<Head(s)>> \o SubSeq(t, k + 1, Len(t))
\* every (lhs, nth, rhs) the partial selection may leave: the element at idx
\* is the idx-th smallest, lhs holds the smaller ones and rhs the larger ones,
\* each in an unspecified order
select_nth_unstable_by(vals, idx) ==
    LET s == SortInts(vals)
    IN  {[lhs |-> l, nth |-> s[idx + 1], rhs |-> r] :
            l \in PermsOf(SubSeq(s, 1, idx)),
            r \in PermsOf(SubSeq(s, idx + 2, Len(s)))}
RECURSIVE min_by(_)
min_by(s) == IF Len(s) = 1 THEN s[1]
             ELSE LET m == min_by(Tail(s)) IN IF s[1] <= m THEN s[1] ELSE m

\* ---- Index Selector ----
\* variant: Nearest truncates instead of rounding
nearest_arm_trunc(float_idx) ==
    LET idx == AsUsize(float_idx)
    IN  <<idx, 0, idx>>
nearest_arm(float_idx) ==
    LET idx == AsUsize(round_f64(float_idx))
    IN  <<idx, 0, idx>>
\* variant: Equiprobable without the step back by one
equiprobable_arm_no_minus_one(nonnull_count, quantile, null_cnt) ==
    LET idx == AsUsize(max_f64(ceil_f64(FMul(nonnull_count, quantile)), F(0))) + null_cnt
    IN  <<idx, 0, idx>>
equiprobable_arm(nonnull_count, quantile, null_cnt) ==
    LET idx == AsUsize(max_f64(ceil_f64(FMul(nonnull_count, quantile)) - F(1), F(0))) + null_cnt
    IN  <<idx, 0, idx>>
\* variant: Higher truncates like Lower
base_arm_floor(method, float_idx) == AsUsize(float_idx)
base_arm(method, float_idx) ==
    IF method = "Higher" THEN AsUsize(ceil_f64(float_idx)) ELSE AsUsize(float_idx)
clamp(x, lo, hi) == IF x < lo THEN lo ELSE IF x > hi THEN hi ELSE x
\* variant: the fractional index spans nonnull_count instead of nonnull_count - 1
quantile_idx_no_minus_one(quantile, length, null_cnt, method) ==
    LET nonnull_count == F(length - null_cnt)
        float_idx == FMul(nonnull_count, quantile) + F(null_cnt)
    IN  IF method = "Nearest" THEN nearest_arm(float_idx)
        ELSE IF method = "Equiprobable"
             THEN equiprobable_arm(nonnull_count, quantile, null_cnt)
        ELSE <<clamp(base_arm(method, float_idx), 0, length - 1),
               float_idx,
               AsUsize(ceil_f64(float_idx))>>
\* variant: the fractional index is not shifted past the nulls
quantile_idx_no_nulls(quantile, length, null_cnt, method) ==
    LET nonnull_count == F(length - null_cnt)
        float_idx == FMul(nonnull_count - F(1), quantile)
    IN  IF method = "Nearest" THEN nearest_arm(float_idx)
        ELSE IF method = "Equiprobable"
             THEN equiprobable_arm(nonnull_count, quantile, null_cnt)
        ELSE <<clamp(base_arm(method, float_idx), 0, length - 1),
               float_idx,
               AsUsize(ceil_f64(float_idx))>>
quantile_idx(quantile, length, null_cnt, method) ==
    LET nonnull_count == F(length - null_cnt)
        float_idx == FMul(nonnull_count - F(1), quantile) + F(null_cnt)
    IN  IF method = "Nearest" THEN nearest_arm(float_idx)
        ELSE IF method = "Equiprobable"
             THEN equiprobable_arm(nonnull_count, quantile, null_cnt)
        ELSE <<clamp(base_arm(method, float_idx), 0, length - 1),
               float_idx,
               AsUsize(ceil_f64(float_idx))>>

\* ---- Interpolator ----
\* variant: the blend starts from upper
linear_interpol_from_upper(lower, upper, idx, float_idx) ==
    IF lower = upper THEN lower
    ELSE LET proportion == float_idx - F(idx)
         IN  FMul(proportion, upper - lower) + upper
linear_interpol(lower, upper, idx, float_idx) ==
    IF lower = upper THEN lower
    ELSE LET proportion == float_idx - F(idx)
         IN  FMul(proportion, upper - lower) + lower
midpoint_interpol(lower, upper) ==
    IF lower = upper THEN lower
    ELSE FDiv(lower + upper, F(1) + F(1))

\* ---- what one call did: its result and the steps it ran ----
Outcome0 ==
    [status |-> "ok", value |-> None, idx_called |-> FALSE, idx_nonnull |-> 0,
     idx |-> 0, float_idx |-> 0, top_idx |-> 0, selected |-> FALSE,
     sorted |-> FALSE, branch |-> FALSE, interpolated |-> FALSE, reads |-> <<>>]
Err == [Outcome0 EXCEPT !.status = "err"]
WithIdx(o, t, nonnull) ==
    [o EXCEPT !.idx_called = TRUE, !.idx_nonnull = nonnull,
              !.idx = t[1], !.float_idx = t[2], !.top_idx = t[3]]
Panic(o) == [o EXCEPT !.status = "panic", !.value = None]

\* ---- Selection Engine (fast path) ----
\* variant: the upper neighbour is taken as the first element of rhs
slice_result_first_rhs(o, p, idx, float_idx, top_idx, method) ==
    LET lower == p.nth
    IN  IF idx = top_idx THEN [o EXCEPT !.value = to_f64(lower)]
        ELSE IF method \in {"Midpoint", "Linear"}
             THEN IF p.rhs = <<>> THEN Panic([o EXCEPT !.branch = TRUE])
                  ELSE LET upper == p.rhs[1]
                       IN  [o EXCEPT !.branch = TRUE, !.interpolated = TRUE,
                                     !.value =
                                        IF method = "Midpoint"
                                        THEN Some(midpoint_interpol(to_f64(lower).v, to_f64(upper).v))
                                        ELSE Some(linear_interpol(to_f64(lower).v, to_f64(upper).v,
                                                                  idx, float_idx))]
             ELSE [o EXCEPT !.branch = TRUE, !.value = to_f64(lower)]
slice_result(o, p, idx, float_idx, top_idx, method) ==
    LET lower == p.nth
    IN  IF idx = top_idx THEN [o EXCEPT !.value = to_f64(lower)]
        ELSE IF method \in {"Midpoint", "Linear"}
             THEN IF p.rhs = <<>> THEN Panic([o EXCEPT !.branch = TRUE])
                  ELSE LET upper == min_by(p.rhs)
                       IN  [o EXCEPT !.branch = TRUE, !.interpolated = TRUE,
                                     !.value =
                                        IF method = "Midpoint"
                                        THEN Some(midpoint_interpol(to_f64(lower).v, to_f64(upper).v))
                                        ELSE Some(linear_interpol(to_f64(lower).v, to_f64(upper).v,
                                                                  idx, float_idx))]
             ELSE [o EXCEPT !.branch = TRUE, !.value = to_f64(lower)]
\* variant: the emptiness test comes before the range test
quantile_slice_late_check(vals, quantile, method) ==
    IF Len(vals) = 0 THEN {Outcome0}
    ELSE IF ~QuantileInRange(quantile) THEN {Err}
    ELSE IF Len(vals) = 1 THEN {[Outcome0 EXCEPT !.value = to_f64(vals[1])]}
    ELSE LET t == quantile_idx(quantile, Len(vals), 0, method)
             o == WithIdx(Outcome0, t, Len(vals))
         IN  IF t[1] >= Len(vals) THEN {Panic(o)}
             ELSE {slice_result([o EXCEPT !.selected = TRUE], p, t[1], t[2], t[3], method) :
                      p \in select_nth_unstable_by(vals, t[1])}
quantile_slice(vals, quantile, method) ==
    IF ~QuantileInRange(quantile) THEN {Err}
    ELSE IF Len(vals) = 0 THEN {Outcome0}
    ELSE IF Len(vals) = 1 THEN {[Outcome0 EXCEPT !.value = to_f64(vals[1])]}
    ELSE LET t == quantile_idx(quantile, Len(vals), 0, method)
             o == WithIdx(Outcome0, t, Len(vals))
         IN  IF t[1] >= Len(vals) THEN {Panic(o)}
             ELSE {slice_result([o EXCEPT !.selected = TRUE], p, t[1], t[2], t[3], method) :
                      p \in select_nth_unstable_by(vals, t[1])}

\* ---- Null-Aware Path (slow path) ----
generic_result(o, sorted, idx, float_idx, top_idx, method) ==
    LET lower == get(sorted, idx)
        upper == get(sorted, idx + 1)
        lo == [o EXCEPT !.reads = <<lower>>, !.value = IF lower.some THEN to_f64(lower.v) ELSE None]
        up == [lo EXCEPT !.reads = <<lower, upper>>]
    IN  IF method \in {"Midpoint", "Linear"} /\ top_idx # idx
        THEN IF ~lower.some \/ ~upper.some THEN Panic(up)
             ELSE [up EXCEPT !.interpolated = TRUE,
                             !.value =
                                IF method = "Midpoint"
                                THEN Some(midpoint_interpol(to_f64(lower.v).v, to_f64(upper.v).v))
                                ELSE Some(linear_interpol(to_f64(lower.v).v, to_f64(upper.v).v,
                                                          idx, float_idx))]
        ELSE lo
\* variant: only the empty array returns early, an all-null one goes on
generic_quantile_empty_only(a, quantile, method) ==
    IF ~QuantileInRange(quantile) THEN Err
    ELSE LET null_cnt == null_count(a)
             length == len(a)
         IN  IF length = 0 THEN Outcome0
             ELSE LET t == quantile_idx(quantile, length, null_cnt, method)
                      o == WithIdx(Outcome0, t, length - null_cnt)
                  IN  generic_result([o EXCEPT !.sorted = TRUE], sort(a),
                                     t[1], t[2], t[3], method)
generic_quantile(a, quantile, method) ==
    IF ~QuantileInRange(quantile) THEN Err
    ELSE LET null_cnt == null_count(a)
             length == len(a)
         IN  IF null_cnt = length THEN Outcome0
             ELSE LET t == quantile_idx(quantile, length, null_cnt, method)
                      o == WithIdx(Outcome0, t, length - null_cnt)
                  IN  generic_result([o EXCEPT !.sorted = TRUE], sort(a),
                                     t[1], t[2], t[3], method)

\* ---- Dispatcher ----
Tag(o, path) == [out |-> o, path |-> path]
quantile(a, single, flag, quantile_, method) ==
    LET slice == cont_slice(a, single)
    IN  IF slice.some /\ ~flag
        THEN {Tag(o, "fast") : o \in quantile_slice(slice.v, quantile_, method)}
        ELSE {Tag(generic_quantile(a, quantile_, method), "slow")}
quantile_faster(a, single, flag, excl, quantile_, method) ==
    LET slice == cont_slice_mut(a, single, excl)
    IN  IF slice.some /\ ~flag
        THEN {Tag(o, "fast") : o \in quantile_slice(slice.v, quantile_, method)}
        ELSE quantile(a, single, flag, quantile_, method)
unwrap(r) == IF r.out.status = "err" THEN [r EXCEPT !.out = Panic(r.out)] ELSE r
\* variant: the median asks for the Lower method
median_lower(a, single, flag) ==
    {unwrap(r) : r \in quantile(a, single, flag, Half, "Lower")}
median(a, single, flag) ==
    {unwrap(r) : r \in quantile(a, single, flag, Half, "Linear")}
median_faster(a, single, flag, excl) ==
    {unwrap(r) : r \in quantile_faster(a, single, flag, excl, Half, "Linear")}

\* ---- the state machine: one array, one call on it ----
Slot == {None} \cup {Some(x) : x \in 1..MaxVal}
Arrays == UNION {[1..n -> Slot] : n \in 0..MaxLen}
\* the arrays of the documented examples
Examples == {[i \in 1..4 |-> Some(i)], [i \in 1..5 |-> Some(i)]}
IsSortedAscending(a) == sort(a) = a
NoCall == [op |-> "none", quantile |-> 0, method |-> "none", path |-> "none", out |-> Outcome0]
Call(op, quantile_, method, r) ==
    [op |-> op, quantile |-> quantile_, method |-> method, path |-> r.path, out |-> r.out]

Init ==
    /\ ca \in Arrays \cup Examples
    /\ single_chunk \in BOOLEAN
    /\ exclusive \in BOOLEAN
    /\ sorted_flag \in BOOLEAN
    /\ sorted_flag => IsSortedAscending(ca)
    /\ ret = NoCall

Quantile ==
    /\ ret = NoCall
    /\ \E q \in Quantiles, method \in Methods :
         \E r \in quantile(ca, single_chunk, sorted_flag, q, method) :
            ret' = Call("quantile", q, method, r)
    /\ UNCHANGED <<ca, single_chunk, sorted_flag, exclusive>>

Median ==
    /\ ret = NoCall
    /\ \E r \in median(ca, single_chunk, sorted_flag) :
            ret' = Call("median", Half, "Linear", r)
    /\ UNCHANGED <<ca, single_chunk, sorted_flag, exclusive>>

QuantileFaster ==
    /\ ret = NoCall
    /\ \E q \in Quantiles, method \in Methods :
         \E r \in quantile_faster(ca, single_chunk, sorted_flag, exclusive, q, method) :
            ret' = Call("quantile_faster", q, method, r)
    /\ UNCHANGED <<ca, single_chunk, sorted_flag, exclusive>>

MedianFaster ==
    /\ ret = NoCall
    /\ \E r \in median_faster(ca, single_chunk, sorted_flag, exclusive) :
            ret' = Call("median_faster", Half, "Linear", r)
    /\ UNCHANGED <<ca, single_chunk, sorted_flag, exclusive>>

Next == Quantile \/ Median \/ QuantileFaster \/ MedianFaster

Spec == Init /\ [][Next]_vars

TypeOK ==
    /\ ca \in Arrays \cup Examples
    /\ ret.out.status \in {"ok", "err", "panic"}
    /\ ret.path \in {"none", "fast", "slow"}

\* ---- vocabulary of the properties ----
Called == ret.op # "none"
InRange == QuantileInRange(ret.quantile)
N == Len(ca)
Z == Cardinality({i \in 1..Len(ca) : ~ca[i].some})
M == N - Z
Valid == {i \in 1..Len(ca) : ca[i].some}
Values == {ca[i].v : i \in Valid}
CountBelow(x) == Cardinality({i \in Valid : ca[i].v < x})
CountUpTo(x) == Cardinality({i \in Valid : ca[i].v <= x})
\* the k-th smallest non-null value, k counted from 0 (0 when there is none)
KthSmallest(k) ==
    IF \E x \in Values : CountBelow(x) <= k /\ k < CountUpTo(x)
    THEN CHOOSE x \in Values : CountBelow(x) <= k /\ k < CountUpTo(x)
    ELSE 0
\* the value at position p of the array sorted ascending with its nulls first
AtSorted(p) == KthSmallest(p - Z)
Buffer == [i \in 1..Len(ca) |-> ca[i].v]
Example4 == [i \in 1..4 |-> Some(i)]
Example5 == [i \in 1..5 |-> Some(i)]

\* C1: on an unsorted null-free array of at least one value, for every q in
\* [0,1] and every method, every result the fast path can produce equals the
\* result of the slow path, and the call returned that result.
C1_FastSlowAgree ==
    (Called /\ InRange /\ Z = 0 /\ N >= 1 /\ ~sorted_flag) =>
        LET slow == generic_quantile(ca, ret.quantile, ret.method)
        IN  /\ slow.status = "ok"
            /\ ret.out.status = "ok"
            /\ ret.out.value = slow.value
            /\ \A o \in quantile_slice(Buffer, ret.quantile, ret.method) :
                  o.status = "ok" /\ o.value = slow.value
C1_Witness ==
    /\ Called /\ InRange /\ Z = 0 /\ ~sorted_flag
    /\ ret.path = "fast" /\ ret.out.interpolated /\ ret.method = "Linear"
    /\ ~IsSortedAscending(ca)
    /\ ret.out.value = generic_quantile(ca, ret.quantile, ret.method).value

\* C2: a quantile outside [0,1] gives the error on both paths, for every
\* method and every array, before the index selector, the selection or the
\* sort has run and with no value produced.
C2_InvalidQuantile ==
    (Called /\ ~InRange) => ret.out = Err
C2_Witness ==
    /\ Called /\ ~InRange /\ ret.quantile > F(1)
    /\ N = 0 /\ ret.path = "fast" /\ ret.out.status = "err"

\* C3: with q in [0,1] the call never fails, its result is absent exactly
\* when the array is empty or all null, and the index selector is never
\* called with zero non-null values.
C3_AbsentIffNoValue ==
    (Called /\ InRange) =>
        /\ ret.out.status = "ok"
        /\ (ret.out.value = None) <=> (M = 0)
        /\ ret.out.idx_called => ret.out.idx_nonnull >= 1
C3_Witness ==
    /\ Called /\ InRange /\ N >= 2 /\ M = 0
    /\ ret.out.value = None /\ ~ret.out.idx_called

\* C4: on a non-empty null-free array, q = 0 gives the minimum and q = 1 the
\* maximum, for each of the six methods.
C4_Extremes ==
    (Called /\ Z = 0 /\ N >= 1) =>
        /\ ret.quantile = F(0) => ret.out.value = Some(F(KthSmallest(0)))
        /\ ret.quantile = F(1) => ret.out.value = Some(F(KthSmallest(M - 1)))
C4_Witness ==
    /\ Called /\ Z = 0 /\ N >= 3 /\ ret.quantile = F(1)
    /\ ret.method = "Equiprobable"
    /\ KthSmallest(0) < KthSmallest(M - 1)
    /\ ret.out.value = Some(F(KthSmallest(M - 1)))

\* C5: median and median_faster never fail and return what quantile(0.5,
\* Linear) returns: the middle order statistic for an odd count of non-null
\* values, the mean of the two middle ones for an even count.
C5_Median ==
    (ret.op \in {"median", "median_faster"}) =>
        /\ ret.out.status = "ok"
        /\ \A r \in quantile(ca, single_chunk, sorted_flag, Half, "Linear") :
              r.out.value = ret.out.value
        /\ \A r \in median(ca, single_chunk, sorted_flag) :
              \A f \in median_faster(ca, single_chunk, sorted_flag, exclusive) :
                 r.out.value = f.out.value /\ r.out.status = "ok" /\ f.out.status = "ok"
        /\ M = 0 => ret.out.value = None
        /\ M % 2 = 1 => ret.out.value = Some(F(KthSmallest((M - 1) \div 2)))
        /\ (M > 0 /\ M % 2 = 0) =>
              /\ ret.out.value.some
              /\ 2 * ret.out.value.v =
                    F(KthSmallest(M \div 2 - 1)) + F(KthSmallest(M \div 2))
C5_Witness ==
    /\ ret.op = "median" /\ ca = Example5
    /\ ret.out.value = Some(F(3))

\* C6: for Linear and Midpoint with base # top, the result lies between the
\* base-th and the top-th order statistic; Midpoint gives their mean and
\* Linear gives lower + (float_idx - base) * (upper - lower).
C6_Interpolation ==
    (Called /\ InRange /\ ret.method \in {"Linear", "Midpoint"}
       /\ ret.out.idx_called /\ ret.out.idx # ret.out.top_idx) =>
        LET lower == F(AtSorted(ret.out.idx))
            upper == F(AtSorted(ret.out.top_idx))
            v == ret.out.value.v
        IN  /\ ret.out.status = "ok"
            /\ ret.out.value.some
            /\ lower <= v /\ v <= upper
            /\ ret.method = "Midpoint" => 2 * v = lower + upper
            /\ ret.method = "Linear" =>
                  Scale * v = Scale * lower
                              + (ret.out.float_idx - F(ret.out.idx)) * (upper - lower)
C6_Witness ==
    /\ Called /\ ca = Example4 /\ ret.method = "Linear"
    /\ 4 * ret.quantile = F(1)
    /\ ret.out.idx = 0 /\ ret.out.top_idx = 1
    /\ 4 * ret.out.value.v = F(7)

\* C7: Nearest returns the value at sorted position round((m-1)*q + z),
\* halves rounded up, which is an element of the array.
C7_Nearest ==
    (Called /\ InRange /\ ret.method = "Nearest" /\ M >= 1) =>
        LET x == (M - 1) * ret.quantile + Z * Scale
            pos == (2 * x + Scale) \div (2 * Scale)
        IN  /\ ret.out.value = Some(F(AtSorted(pos)))
            /\ AtSorted(pos) \in Values
            /\ ~ret.out.interpolated
C7_Witness ==
    /\ Called /\ ca = Example4 /\ ret.method = "Nearest"
    /\ ret.quantile = Half /\ ret.out.value = Some(F(3))

\* C8: Equiprobable returns the value at sorted position
\* max(0, ceil(m*q) - 1) + z, which is an element of the array.
C8_Equiprobable ==
    (Called /\ InRange /\ ret.method = "Equiprobable" /\ M >= 1) =>
        LET c == 0 - ((0 - M * ret.quantile) \div Scale)
            pos == (IF c - 1 > 0 THEN c - 1 ELSE 0) + Z
        IN  /\ ret.out.value = Some(F(AtSorted(pos)))
            /\ AtSorted(pos) \in Values
            /\ ~ret.out.interpolated
C8_Witness ==
    /\ Called /\ ca = Example4 /\ ret.method = "Equiprobable"
    /\ ret.quantile = Half /\ ret.out.value = Some(F(2))

\* C9 as stated: for Lower, Higher, Nearest and Equiprobable the index
\* selector returns base = top, so the base # top branch of the selection
\* engine is never reached for them.
C9_Original ==
    (Called /\ InRange /\ ret.out.idx_called
       /\ ret.method \in {"Lower", "Higher", "Nearest", "Equiprobable"}) =>
        ret.out.idx = ret.out.top_idx /\ ~ret.out.branch

\* C9 amended: for Higher, Nearest and Equiprobable base = top and the
\* base # top branch is never reached; for Lower the branch can be reached
\* and then returns the base-th order statistic unblended; only Linear and
\* Midpoint interpolate.
C9_Amended ==
    (Called /\ InRange /\ ret.out.idx_called) =>
        /\ ret.method \in {"Higher", "Nearest", "Equiprobable"} =>
              ret.out.idx = ret.out.top_idx /\ ~ret.out.branch
        /\ ret.method = "Lower" =>
              /\ ret.out.value = Some(F(AtSorted(ret.out.idx)))
              /\ ret.out.top_idx - ret.out.idx \in {0, 1}
        /\ ret.out.interpolated => ret.method \in {"Linear", "Midpoint"}
C9_Witness ==
    /\ Called /\ InRange /\ ret.out.idx_called /\ ret.path = "fast"
    /\ ret.method = "Higher" /\ ret.out.float_idx % Scale # 0
    /\ ret.out.idx = ret.out.top_idx /\ ~ret.out.branch

\* C10: the positions of the index selector satisfy z <= base <= top <= n-1
\* with top - base in {0,1}, and every position the slow path reads holds
\* the non-null order statistic meant.
C10_Positions ==
    (Called /\ InRange /\ ret.out.idx_called) =>
        /\ Z <= ret.out.idx /\ ret.out.idx <= ret.out.top_idx
        /\ ret.out.top_idx <= N - 1
        /\ ret.out.top_idx - ret.out.idx \in {0, 1}
        /\ ret.path = "slow" =>
              /\ Len(ret.out.reads) >= 1
              /\ ret.out.reads[1] = Some(AtSorted(ret.out.idx))
              /\ Len(ret.out.reads) = 2 =>
                    /\ ret.out.top_idx = ret.out.idx + 1
                    /\ ret.out.reads[2] = Some(AtSorted(ret.out.top_idx))
              /\ (ret.method \in {"Linear", "Midpoint"} /\ ret.out.top_idx # ret.out.idx) =>
                    Len(ret.out.reads) = 2
C10_Witness ==
    /\ Called /\ InRange /\ ret.out.idx_called /\ ret.path = "slow"
    /\ Z >= 1 /\ M >= 2 /\ Len(ret.out.reads) = 2
    /\ ret.out.reads[2].some /\ ret.out.reads[1].v < ret.out.reads[2].v
====
